---- MODULE Spec2Model ----
(***************************************************************************)
(* FRC Components API: credential verification, bearer tokens and the      *)
(* team-scoped access guard (app/auth.py, app/main.py, app/crud.py,        *)
(* app/models.py).                                                         *)
(*                                                                         *)
(* Python values are represented as follows.  None is the string NoneVal,  *)
(* which is different from every string the model uses as data.  An        *)
(* Optional row (the result of fetch_one) and an Optional timedelta are    *)
(* sets / sequences with at most one element.  Instants are records        *)
(* [s, f]: whole seconds since the epoch and a sub-second part.            *)
(***************************************************************************)
EXTENDS Integers, Sequences, FiniteSets, TLC

NoneVal == "<None>"

(* ------------------------------ bounds -------------------------------- *)

\* tokens are created only during the first MaxIssueSec + 1 seconds
MaxIssueSec == 0
\* at most MaxIssued tokens are created in a run
MaxIssued == 1
\* the short lifetime (seconds) a direct caller of create_access_token passes
ShortTTL == 2
\* sub-second positions of the clock within one second
SubSec == 2
\* requests that can be suspended at an await at the same time
NReq == 2
\* rows the team_components table holds at most
MaxRows == 2

(* ------------------------- program constants -------------------------- *)

ALGORITHM == "HS256"
ACCESS_TOKEN_EXPIRE_MINUTES == 30
DEFAULT_EXPIRE_MINUTES == 15
SecondsPerMinute == 60

HTTP_200_OK == 200
HTTP_400_BAD_REQUEST == 400
HTTP_401_UNAUTHORIZED == 401
HTTP_403_FORBIDDEN == 403
HTTP_404_NOT_FOUND == 404
HTTP_500_INTERNAL_SERVER_ERROR == 500

VARIABLES
    environ,          \* os.environ["SECRET_KEY"], NoneVal when it is not set
    proc,             \* "boot" | "running" | "aborted"
    SECRET_KEY,       \* auth.SECRET_KEY, the module global
    now,              \* the wall clock
    users,            \* rows of the users table
    team_components,  \* rows of the team_components table
    issued,           \* history: every token create_access_token returned
    pending,          \* requests suspended at an await between two statements
    last              \* the response being sent, with the request it answers

vars == <<environ, proc, SECRET_KEY, now, users, team_components, issued,
          pending, last>>

(* ------------------------------ values -------------------------------- *)

EnvSecrets == {NoneVal, "", "k1", "k2"}
AttackerKey == "attacker"

Usernames == {"alice", "bob", "dave", "eve"}
GhostUser == "ghost"
Passwords == {"pw1", "pw2"}
Roles == {"member", "admin"}
TeamIds == {"A", "a"}

Lower(s) == IF s = "A" THEN "a" ELSE IF s = "B" THEN "b" ELSE s

(* ---------------------------- HTTP values ----------------------------- *)

HTTPException(status_code, detail, headers) ==
    [status |-> status_code, detail |-> detail, headers |-> headers,
     body |-> <<>>]

Ok(body) ==
    [status |-> HTTP_200_OK, detail |-> "", headers |-> {}, body |-> body]

BearerChallenge == {<<"WWW-Authenticate", "Bearer">>}

NoLast == [op |-> "none"]
Slots == 1..NReq
Idle == [op |-> "idle"]
NoPending == [r \in Slots |-> Idle]
The(S) == CHOOSE x \in S : TRUE
NoToken == [claims |-> [sub |-> NoneVal, exp |-> 0], sig |-> <<>>]

(* ------------------------- auth.py: passwords ------------------------- *)

Salts == {"s1", "s2"}

\* pwd_context.hash: a self-describing salted bcrypt hash
bcrypt_hash(password, salt) ==
    [scheme |-> "bcrypt", salt |-> salt, digest |-> <<salt, password>>]

get_password_hash(password, salt) == bcrypt_hash(password, salt)

verify_password(plain_password, hashed_password) ==
    hashed_password.digest = <<hashed_password.salt, plain_password>>

(* --------------------------- auth.py: clock --------------------------- *)

Instant(s, f) == [s |-> s, f |-> f]
Before(t1, t2) == t1.s < t2.s \/ (t1.s = t2.s /\ t1.f < t2.f)
Plus(t, seconds) == Instant(t.s + seconds, t.f)
\* calendar.timegm(t.utctimetuple()): whole seconds, the fraction dropped
timegm(t) == t.s

Truthy(expires_delta) == expires_delta # <<>> /\ expires_delta[1] # 0

Lifetimes ==
    {ShortTTL, DEFAULT_EXPIRE_MINUTES * SecondsPerMinute,
     ACCESS_TOKEN_EXPIRE_MINUTES * SecondsPerMinute}
ClockSecs ==
    {t0 + d + k : t0 \in 0..MaxIssueSec, d \in Lifetimes \cup {0}, k \in 0..1}
Instants == {Instant(s, f) : s \in ClockSecs, f \in 0..(SubSec - 1)}

(* --------------------------- auth.py: tokens -------------------------- *)

\* HMAC-SHA256 of the claims under a key: equal only for the same key and claims
HS256(key, claims) == <<ALGORITHM, key, claims>>

jwt_encode(claims, key) == [claims |-> claims, sig |-> HS256(key, claims)]

\* jose.jwt.decode: the signature, then exp against the current whole second
jwt_expired(exp, t) == exp < timegm(t)

\* fault: the signature is not verified
jwt_decode_unverified(token, key, t) ==
    IF jwt_expired(token.claims.exp, t) THEN {} ELSE {token.claims}

jwt_decode(token, key, t) ==
    IF token.sig # HS256(key, token.claims) THEN {}
    ELSE IF jwt_expired(token.claims.exp, t) THEN {}
    ELSE {token.claims}

create_access_token(sub, expires_delta, key, t) ==
    LET expire == IF Truthy(expires_delta)
                  THEN Plus(t, expires_delta[1])
                  ELSE Plus(t, DEFAULT_EXPIRE_MINUTES * SecondsPerMinute)
    IN  jwt_encode([sub |-> sub, exp |-> timegm(expire)], key)

(* ------------------------ auth.py: user lookups ----------------------- *)

fetch_one(rows) == IF rows = {} THEN {} ELSE {CHOOSE r \in rows : TRUE}

get_user_by_username(username) ==
    fetch_one({u \in users : u.username = username})

get_user_by_email(email) ==
    fetch_one({u \in users : u.email = email})

\* fault: the password is not verified
authenticate_user_any_password(username, password) ==
    get_user_by_username(username)

authenticate_user(username, password) ==
    LET user == get_user_by_username(username)
    IN  IF user = {} THEN {}
        ELSE IF \E u \in user : ~verify_password(password, u.hashed_password)
             THEN {}
             ELSE user

credentials_exception ==
    HTTPException(HTTP_401_UNAUTHORIZED, "Could not validate credentials",
                  BearerChallenge)

\* a dependency's result: the user it yields, or the exception it raises
Yield(user) == [user |-> user, exc |-> {}]
Raise(exc) == [user |-> {}, exc |-> {exc}]

get_current_user(token, t) ==
    LET payload == jwt_decode(token, SECRET_KEY, t)
    IN  IF payload = {} THEN Raise(credentials_exception)
        ELSE LET username == (CHOOSE c \in payload : TRUE).sub
             IN  IF username = NoneVal THEN Raise(credentials_exception)
                 ELSE LET user == get_user_by_username(username)
                      IN  IF user = {} THEN Raise(credentials_exception)
                          ELSE Yield(user)

inactive_exception ==
    HTTPException(HTTP_400_BAD_REQUEST, "Inactive user", {})

\* fault: is_active is not consulted
get_current_active_user_any(token, t) == get_current_user(token, t)

get_current_active_user(token, t) ==
    LET current == get_current_user(token, t)
    IN  IF current.exc # {} THEN current
        ELSE IF \E u \in current.user : ~u.is_active
             THEN Raise(inactive_exception)
             ELSE current

forbidden_exception ==
    HTTPException(HTTP_403_FORBIDDEN,
        "Access denied: You can only access your own team's data", {})

\* fault: team ids are compared without regard to case
check_team_access_caseless(user, team_id) ==
    IF Lower(user.team_id) # Lower(team_id) THEN {forbidden_exception} ELSE {}

\* the exception check_team_access raises, none when it returns
check_team_access(user, team_id) ==
    IF user.team_id # team_id THEN {forbidden_exception} ELSE {}

(* --------------------------- the users table -------------------------- *)

UserRow(id, username, password, team_id, role, is_active) ==
    [id |-> id, username |-> username, email |-> <<username, "@x.com">>,
     hashed_password |-> get_password_hash(password, "s1"),
     team_id |-> team_id, role |-> role, is_active |-> is_active]

InitialUsers ==
    {UserRow(1, "alice", "pw1", "A", "member", TRUE),
     UserRow(2, "bob", "pw2", "a", "admin", TRUE),
     UserRow(3, "dave", "pw1", NoneVal, "member", TRUE),
     UserRow(4, "eve", "pw2", "A", "member", FALSE)}

(* ----------------------- main.py: authentication ---------------------- *)

login_exception ==
    HTTPException(HTTP_401_UNAUTHORIZED, "Incorrect username or password",
                  BearerChallenge)

\* the token login_user creates, none when authentication fails
login_token(username, password, t) ==
    LET user == authenticate_user(username, password)
    IN  {create_access_token(u.username,
                             <<ACCESS_TOKEN_EXPIRE_MINUTES * SecondsPerMinute>>,
                             SECRET_KEY, t) : u \in user}

\* fault: an unknown username is answered differently from a wrong password
login_user_revealing(username, password, t) ==
    LET token == login_token(username, password, t)
    IN  IF get_user_by_username(username) = {}
        THEN HTTPException(HTTP_404_NOT_FOUND, "User not found", {})
        ELSE IF token = {} THEN login_exception
             ELSE Ok([access_token |-> CHOOSE k \in token : TRUE,
                      token_type |-> "bearer"])

login_user(username, password, t) ==
    LET token == login_token(username, password, t)
    IN  IF token = {} THEN login_exception
        ELSE Ok([access_token |-> CHOOSE k \in token : TRUE,
                 token_type |-> "bearer"])

Profile(u) ==
    [id |-> u.id, username |-> u.username, email |-> u.email,
     team_id |-> u.team_id, role |-> u.role, is_active |-> u.is_active]

read_users_me(token, t) ==
    LET current == get_current_active_user(token, t)
    IN  IF current.exc # {} THEN CHOOSE e \in current.exc : TRUE
        ELSE Ok(Profile(CHOOSE u \in current.user : TRUE))

(* ------------------------------- startup ------------------------------ *)

\* fault: only an absent secret is refused, an empty one is accepted
secret_missing_only_none(value) == value = NoneVal

\* auth.py: `if not SECRET_KEY`
secret_missing(value) == value = NoneVal \/ value = ""

Boot ==
    /\ proc = "boot"
    /\ SECRET_KEY' = environ
    /\ proc' = IF secret_missing(environ) THEN "aborted" ELSE "running"
    /\ UNCHANGED <<environ, now, users, team_components, issued, pending, last>>

Serving == proc = "running" /\ last.op = "none"

Tick ==
    /\ Serving
    /\ \E t \in Instants : Before(now, t) /\ now' = t
    /\ UNCHANGED <<environ, proc, SECRET_KEY, users, team_components, issued,
                   pending, last>>

\* the response has been sent
Deliver ==
    /\ last.op # "none"
    /\ last' = NoLast
    /\ UNCHANGED <<environ, proc, SECRET_KEY, now, users, team_components,
                   issued, pending>>

(* --------------------------- token requests --------------------------- *)

Issue(token, expires_delta, via) ==
    [token |-> token, t0 |-> now, ttl |-> expires_delta, via |-> via,
     key |-> SECRET_KEY]

MayIssue == Cardinality(issued) < MaxIssued /\ now.s <= MaxIssueSec

\* POST /token
Login ==
    /\ Serving
    /\ \E username \in Usernames \cup {GhostUser}, password \in Passwords :
         LET token == login_token(username, password, now)
         IN  /\ token # {} => MayIssue
             /\ issued' = issued \cup
                  {Issue(k, <<ACCESS_TOKEN_EXPIRE_MINUTES * SecondsPerMinute>>,
                         "login") : k \in token}
             /\ last' = [op |-> "login", token |-> NoToken,
                         args |-> [username |-> username, password |-> password],
                         resp |-> login_user(username, password, now)]
    /\ UNCHANGED <<environ, proc, SECRET_KEY, now, users, team_components,
                   pending>>

\* a direct call of create_access_token(data, expires_delta)
CreateAccessToken ==
    /\ Serving
    /\ MayIssue
    /\ \E sub \in {"alice", GhostUser, NoneVal},
          expires_delta \in {<<>>, <<0>>, <<ShortTTL>>} :
         issued' = issued \cup
            {Issue(create_access_token(sub, expires_delta, SECRET_KEY, now),
                   expires_delta, "call")}
    /\ UNCHANGED <<environ, proc, SECRET_KEY, now, users, team_components,
                   pending, last>>

FarFuture == ACCESS_TOKEN_EXPIRE_MINUTES * SecondsPerMinute * 2

\* what a client can present: the tokens it was given, a token with altered
\* claims under the old signature, and a token signed with another key
PresentedTokens ==
    {i.token : i \in issued}
    \cup {[i.token EXCEPT !.claims.sub = "bob"] : i \in issued}
    \cup {[i.token EXCEPT !.claims.exp = FarFuture] : i \in issued}
    \cup {jwt_encode([sub |-> "alice", exp |-> FarFuture], AttackerKey)}

\* GET /users/me
ReadUsersMe ==
    /\ Serving
    /\ \E token \in PresentedTokens :
         last' = [op |-> "users_me", token |-> token, args |-> <<>>,
                  resp |-> read_users_me(token, now)]
    /\ UNCHANGED <<environ, proc, SECRET_KEY, now, users, team_components,
                   issued, pending>>

InitAuth ==
    /\ environ \in EnvSecrets
    /\ proc = "boot"
    /\ SECRET_KEY = NoneVal
    /\ now \in {Instant(0, f) : f \in 0..(SubSec - 1)}
    /\ users = InitialUsers
    /\ team_components = {}
    /\ issued = {}
    /\ pending = NoPending
    /\ last = NoLast

NextAuth == Boot \/ Tick \/ Login \/ CreateAccessToken \/ ReadUsersMe \/ Deliver

SpecAuth == InitAuth /\ [][NextAuth]_vars

(* ---------------------------- registration ---------------------------- *)

Email(name) == <<name, "@x.com">>
RegUsernames == {"alice", "carol", "erin"}
RegPassword == "pw3"
RegPayloads ==
    {[username |-> n, email |-> Email(e), password |-> RegPassword,
      team_id |-> "A"] : n \in RegUsernames, e \in RegUsernames}

username_exception ==
    HTTPException(HTTP_400_BAD_REQUEST, "Username already registered", {})
email_exception ==
    HTTPException(HTTP_400_BAD_REQUEST, "Email already registered", {})
\* an exception no handler catches
server_error ==
    HTTPException(HTTP_500_INTERNAL_SERVER_ERROR, "Internal Server Error", {})

\* fault: only the username is unique
unique_violation_username_only(row) ==
    \E u \in users : u.username = row.username

\* models.py: username and email are declared unique=True
unique_violation(row) ==
    \E u \in users : u.username = row.username \/ u.email = row.email

next_user_id ==
    IF users = {} THEN 1
    ELSE (CHOOSE m \in {u.id : u \in users} :
            \A u \in users : u.id <= m) + 1

\* crud.create_user: the row inserted, none when the store refuses it
create_user(user_data) ==
    IF unique_violation(user_data) THEN {}
    ELSE {[user_data EXCEPT !.id = next_user_id]}

Respond(op, args, resp) ==
    [op |-> op, token |-> NoToken, args |-> args, resp |-> resp]

\* POST /register, up to the await of the username lookup
RegisterUser_Username(r) ==
    /\ Serving
    /\ pending[r].op = "idle"
    /\ \E user \in RegPayloads :
         IF get_user_by_username(user.username) # {}
         THEN /\ last' = Respond("register", user, username_exception)
              /\ UNCHANGED pending
         ELSE /\ pending' = [pending EXCEPT ![r] =
                   [op |-> "register", pc |-> "email", args |-> user]]
              /\ UNCHANGED last
    /\ UNCHANGED <<environ, proc, SECRET_KEY, now, users, team_components,
                   issued>>

\* ... up to the await of the email lookup
RegisterUser_Email(r) ==
    /\ Serving
    /\ pending[r].op = "register" /\ pending[r].pc = "email"
    /\ IF get_user_by_email(pending[r].args.email) # {}
       THEN /\ last' = Respond("register", pending[r].args, email_exception)
            /\ pending' = [pending EXCEPT ![r] = Idle]
       ELSE /\ pending' = [pending EXCEPT ![r].pc = "insert"]
            /\ UNCHANGED last
    /\ UNCHANGED <<environ, proc, SECRET_KEY, now, users, team_components,
                   issued>>

register_response(user, user_id) ==
    Ok([id |-> user_id,
        message |-> <<"User ", user.username, " registered successfully">>,
        username |-> user.username, team_id |-> user.team_id])

\* ... the hash, the insert and the response
RegisterUser_Insert(r) ==
    /\ Serving
    /\ pending[r].op = "register" /\ pending[r].pc = "insert"
    /\ \E salt \in Salts :
         LET user == pending[r].args
             user_data ==
                 [id |-> 0, username |-> user.username, email |-> user.email,
                  hashed_password |-> get_password_hash(user.password, salt),
                  team_id |-> user.team_id, role |-> "member",
                  is_active |-> TRUE]
             created == create_user(user_data)
         IN  /\ users' = users \cup created
             /\ last' = Respond("register", user,
                    IF created = {} THEN server_error
                    ELSE register_response(user, The(created).id))
    /\ pending' = [pending EXCEPT ![r] = Idle]
    /\ UNCHANGED <<environ, proc, SECRET_KEY, now, team_components, issued>>

InitRunning ==
    /\ environ = "k1"
    /\ proc = "running"
    /\ SECRET_KEY = "k1"
    /\ now = Instant(0, 0)
    /\ users = InitialUsers
    /\ team_components = {}
    /\ issued = {}
    /\ pending = NoPending
    /\ last = NoLast

NextReg ==
    \/ \E r \in Slots : RegisterUser_Username(r)
    \/ \E r \in Slots : RegisterUser_Email(r)
    \/ \E r \in Slots : RegisterUser_Insert(r)
    \/ Deliver

SpecReg == InitRunning /\ [][NextReg]_vars

(* --------------------- crud.py: team components ----------------------- *)

ComponentIds == 1..MaxRows
NewImageUrl == "img1"
NewCadUrl == "cad1"

\* TeamComponentUpdate payloads: every field None, and one field set
NoFields == [name |-> NoneVal, image_url |-> NoneVal, cad_file_url |-> NoneVal]
UpdatePayloads == {NoFields, [NoFields EXCEPT !.cad_file_url = NewCadUrl]}

\* the rowid SQLite gives an INTEGER PRIMARY KEY: one more than the largest
next_component_id ==
    IF team_components = {} THEN 1
    ELSE (CHOOSE m \in {c.id : c \in team_components} :
            \A c \in team_components : c.id <= m) + 1

crud_create_team_component(component_data) ==
    [component_data EXCEPT !.id = next_component_id]

crud_get_team_component(component_id) ==
    fetch_one({c \in team_components : c.id = component_id})

crud_get_team_components(team_id) ==
    {c \in team_components : c.team_id = team_id}

\* fault: the fields that are None are not filtered out
update_data_with_none(component_data) == DOMAIN component_data

\* update_data: the fields of the payload that are not None
update_data(component_data) ==
    {k \in DOMAIN component_data : component_data[k] # NoneVal}

updated_row(row, component_data) ==
    [k \in DOMAIN row |->
        IF k \in update_data(component_data) THEN component_data[k]
        ELSE row[k]]

\* the table after UPDATE ... WHERE id = component_id
crud_update_team_component(component_id, component_data) ==
    IF update_data(component_data) = {} THEN team_components
    ELSE {IF c.id = component_id THEN updated_row(c, component_data) ELSE c :
            c \in team_components}

\* whether crud.update_team_component returns True
crud_update_result(component_id, component_data) ==
    /\ update_data(component_data) # {}
    /\ crud_get_team_component(component_id) # {}

crud_delete_team_component(component_id) ==
    {c \in team_components : c.id # component_id}

crud_update_team_component_image(component_id, image_url) ==
    {IF c.id = component_id THEN [c EXCEPT !.image_url = image_url] ELSE c :
        c \in team_components}

crud_get_team_components_with_cad_files(team_id) ==
    {c \in team_components : c.team_id = team_id /\ c.cad_file_url # NoneVal}

crud_get_team_components_with_images(team_id) ==
    {c \in team_components : c.team_id = team_id /\ c.image_url # NoneVal}

RECURSIVE SumQuantity(_)
SumQuantity(rows) ==
    IF rows = {} THEN 0
    ELSE LET c == CHOOSE x \in rows : TRUE
         IN  c.quantity + SumQuantity(rows \ {c})

crud_get_team_inventory_summary(team_id) ==
    LET components == crud_get_team_components(team_id)
    IN  [team_id |-> team_id, total_items |-> SumQuantity(components),
         unique_components |-> Cardinality(components)]

(* --------------------- main.py: team components ----------------------- *)

not_found_exception ==
    HTTPException(HTTP_404_NOT_FOUND, "Team component not found", {})
wrong_team_exception ==
    HTTPException(HTTP_403_FORBIDDEN,
                  "Component does not belong to this team", {})
no_fields_exception ==
    HTTPException(HTTP_400_BAD_REQUEST, "No valid fields to update", {})
delete_failed_exception ==
    HTTPException(HTTP_500_INTERNAL_SERVER_ERROR,
                  "Failed to delete team component", {})
image_failed_exception ==
    HTTPException(HTTP_400_BAD_REQUEST,
                  "Failed to update component image", {})

\* Each *_gate is the part of a handler that runs before its write: the
\* exception it raises, none when the handler goes on.

create_team_component_gate(token, team_id) ==
    LET current == get_current_active_user(token, now)
    IN  IF current.exc # {} THEN current.exc
        ELSE check_team_access(The(current.user), team_id)

get_team_components(token, team_id) ==
    LET current == get_current_active_user(token, now)
    IN  IF current.exc # {} THEN The(current.exc)
        ELSE IF check_team_access(The(current.user), team_id) # {}
             THEN The(check_team_access(The(current.user), team_id))
             ELSE Ok(crud_get_team_components(team_id))

\* fault: a missing component is answered like a foreign one
component_gate_hiding(token, component_id) ==
    LET current == get_current_active_user(token, now)
        component == crud_get_team_component(component_id)
    IN  IF current.exc # {} THEN current.exc
        ELSE IF component = {} THEN {forbidden_exception}
             ELSE check_team_access(The(current.user), The(component).team_id)

\* get, update and delete: the lookup, then the ownership check
component_gate(token, component_id) ==
    LET current == get_current_active_user(token, now)
        component == crud_get_team_component(component_id)
    IN  IF current.exc # {} THEN current.exc
        ELSE IF component = {} THEN {not_found_exception}
             ELSE check_team_access(The(current.user), The(component).team_id)

get_team_component(token, component_id) ==
    IF component_gate(token, component_id) # {}
    THEN The(component_gate(token, component_id))
    ELSE Ok(The(crud_get_team_component(component_id)))

\* fault: the update handler omits the ownership check
update_team_component_gate_unchecked(token, component_id) ==
    LET current == get_current_active_user(token, now)
    IN  IF current.exc # {} THEN current.exc
        ELSE IF crud_get_team_component(component_id) = {}
             THEN {not_found_exception}
             ELSE {}

update_team_component_gate(token, component_id) ==
    component_gate(token, component_id)

delete_team_component_gate(token, component_id) ==
    component_gate(token, component_id)

add_image_gate(token, team_id, component_id) ==
    LET current == get_current_active_user(token, now)
        component == crud_get_team_component(component_id)
    IN  IF current.exc # {} THEN current.exc
        ELSE IF check_team_access(The(current.user), team_id) # {}
             THEN check_team_access(The(current.user), team_id)
             ELSE IF component = {} THEN {not_found_exception}
                  ELSE IF The(component).team_id # team_id
                       THEN {wrong_team_exception}
                       ELSE {}

get_team_components_with_cad_files(team_id) ==
    Ok(crud_get_team_components_with_cad_files(team_id))

get_team_components_with_images(team_id) ==
    Ok(crud_get_team_components_with_images(team_id))

get_team_inventory_summary(team_id) ==
    Ok(crud_get_team_inventory_summary(team_id))

(* ------------------------ team component requests --------------------- *)

TokenFor(username) ==
    create_access_token(username,
        <<ACCESS_TOKEN_EXPIRE_MINUTES * SecondsPerMinute>>, SECRET_KEY, now)

ForgedToken == jwt_encode([sub |-> "alice", exp |-> FarFuture], AttackerKey)

TeamTokens == {TokenFor(u.username) : u \in users} \cup {ForgedToken}

Answer(op, token, args, resp) ==
    [op |-> op, token |-> token, args |-> args, resp |-> resp]

\* the suspended request: what the handler holds across its await; of the
\* row it looked up, the columns it reads
Suspended(op, token, args) ==
    LET component == The(crud_get_team_component(args.component_id))
    IN  [op |-> op, token |-> token, args |-> args,
         component |-> [id |-> component.id, team_id |-> component.team_id]]

TeamFrame == UNCHANGED <<environ, proc, SECRET_KEY, now, users, issued>>

\* POST /team-components/
CreateTeamComponent ==
    /\ Serving
    /\ \E token \in TeamTokens, team_id \in TeamIds :
         LET gate == create_team_component_gate(token, team_id)
             row == crud_create_team_component(
                      [id |-> 0, team_id |-> team_id, name |-> "n0",
                       quantity |-> 1, image_url |-> NoneVal,
                       cad_file_url |-> NoneVal])
             args == [team_id |-> team_id]
         IN  IF gate # {}
             THEN /\ last' = Answer("create", token, args, The(gate))
                  /\ UNCHANGED team_components
             ELSE /\ Cardinality(team_components) < MaxRows
                  /\ team_components' = team_components \cup {row}
                  /\ last' = Answer("create", token, args,
                        Ok([id |-> row.id,
                            message |-> "Team component created successfully"]))
    /\ UNCHANGED pending
    /\ TeamFrame

\* GET /teams/{team_id}/components
GetTeamComponents ==
    /\ Serving
    /\ \E token \in TeamTokens, team_id \in TeamIds :
         last' = Answer("list", token, [team_id |-> team_id],
                        get_team_components(token, team_id))
    /\ UNCHANGED <<team_components, pending>>
    /\ TeamFrame

\* GET /team-components/{component_id}
GetTeamComponent ==
    /\ Serving
    /\ \E token \in TeamTokens, component_id \in ComponentIds :
         last' = Answer("get", token, [component_id |-> component_id],
                        get_team_component(token, component_id))
    /\ UNCHANGED <<team_components, pending>>
    /\ TeamFrame

\* PUT /team-components/{component_id}, up to the await of the update
UpdateTeamComponent_Check(r) ==
    /\ Serving
    /\ pending[r].op = "idle"
    /\ \E token \in TeamTokens, component_id \in ComponentIds,
          component \in UpdatePayloads :
         LET gate == update_team_component_gate(token, component_id)
             args == [component_id |-> component_id, component |-> component]
         IN  IF gate # {}
             THEN /\ last' = Answer("update", token, args, The(gate))
                  /\ UNCHANGED pending
             ELSE /\ pending' = [pending EXCEPT ![r] =
                                   Suspended("update", token, args)]
                  /\ UNCHANGED last
    /\ UNCHANGED team_components
    /\ TeamFrame

\* ... crud.update_team_component and the response
UpdateTeamComponent_Write(r) ==
    /\ Serving
    /\ pending[r].op = "update"
    /\ LET args == pending[r].args
       IN  /\ team_components' =
                crud_update_team_component(args.component_id, args.component)
           /\ last' = Answer("update", pending[r].token, args,
                IF crud_update_result(args.component_id, args.component)
                THEN Ok([message |-> "Team component updated successfully"])
                ELSE no_fields_exception)
    /\ pending' = [pending EXCEPT ![r] = Idle]
    /\ TeamFrame

\* DELETE /team-components/{component_id}, up to the await of the delete
DeleteTeamComponent_Check(r) ==
    /\ Serving
    /\ pending[r].op = "idle"
    /\ \E token \in TeamTokens, component_id \in ComponentIds :
         LET gate == delete_team_component_gate(token, component_id)
             args == [component_id |-> component_id]
         IN  IF gate # {}
             THEN /\ last' = Answer("delete", token, args, The(gate))
                  /\ UNCHANGED pending
             ELSE /\ pending' = [pending EXCEPT ![r] =
                                   Suspended("delete", token, args)]
                  /\ UNCHANGED last
    /\ UNCHANGED team_components
    /\ TeamFrame

\* ... crud.delete_team_component and the response
DeleteTeamComponent_Write(r) ==
    /\ Serving
    /\ pending[r].op = "delete"
    /\ LET args == pending[r].args
       IN  /\ team_components' = crud_delete_team_component(args.component_id)
           /\ last' = Answer("delete", pending[r].token, args,
                IF crud_get_team_component(args.component_id) # {}
                THEN Ok([message |-> "Team component deleted successfully"])
                ELSE delete_failed_exception)
    /\ pending' = [pending EXCEPT ![r] = Idle]
    /\ TeamFrame

\* POST /teams/{team_id}/components/{component_id}/add-image, up to the
\* await of the image update
AddImage_Check(r) ==
    /\ Serving
    /\ pending[r].op = "idle"
    /\ \E token \in TeamTokens, team_id \in TeamIds,
          component_id \in ComponentIds :
         LET gate == add_image_gate(token, team_id, component_id)
             args == [team_id |-> team_id, component_id |-> component_id,
                      image_url |-> NewImageUrl]
         IN  IF gate # {}
             THEN /\ last' = Answer("add_image", token, args, The(gate))
                  /\ UNCHANGED pending
             ELSE /\ pending' = [pending EXCEPT ![r] =
                                   Suspended("add_image", token, args)]
                  /\ UNCHANGED last
    /\ UNCHANGED team_components
    /\ TeamFrame

\* ... crud.update_team_component_image and the response
AddImage_Write(r) ==
    /\ Serving
    /\ pending[r].op = "add_image"
    /\ LET args == pending[r].args
       IN  /\ team_components' =
                crud_update_team_component_image(args.component_id,
                                                 args.image_url)
           /\ last' = Answer("add_image", pending[r].token, args,
                IF crud_get_team_component(args.component_id) # {}
                THEN Ok([message |->
                           "Image URL added to team component successfully",
                         team_id |-> args.team_id,
                         component_id |-> args.component_id,
                         image_url |-> args.image_url])
                ELSE image_failed_exception)
    /\ pending' = [pending EXCEPT ![r] = Idle]
    /\ TeamFrame

\* GET /teams/{team_id}/components/with-cad-files
GetTeamComponentsWithCadFiles ==
    /\ Serving
    /\ \E team_id \in TeamIds :
         last' = Answer("with_cad_files", NoToken, [team_id |-> team_id],
                        get_team_components_with_cad_files(team_id))
    /\ UNCHANGED <<team_components, pending>>
    /\ TeamFrame

\* GET /teams/{team_id}/components/with-images
GetTeamComponentsWithImages ==
    /\ Serving
    /\ \E team_id \in TeamIds :
         last' = Answer("with_images", NoToken, [team_id |-> team_id],
                        get_team_components_with_images(team_id))
    /\ UNCHANGED <<team_components, pending>>
    /\ TeamFrame

\* GET /teams/{team_id}/inventory/summary
GetTeamInventorySummary ==
    /\ Serving
    /\ \E team_id \in TeamIds :
         last' = Answer("summary", NoToken, [team_id |-> team_id],
                        get_team_inventory_summary(team_id))
    /\ UNCHANGED <<team_components, pending>>
    /\ TeamFrame

NextTeam ==
    \/ CreateTeamComponent
    \/ GetTeamComponents
    \/ GetTeamComponent
    \/ \E r \in Slots : UpdateTeamComponent_Check(r)
    \/ \E r \in Slots : UpdateTeamComponent_Write(r)
    \/ \E r \in Slots : DeleteTeamComponent_Check(r)
    \/ \E r \in Slots : DeleteTeamComponent_Write(r)
    \/ \E r \in Slots : AddImage_Check(r)
    \/ \E r \in Slots : AddImage_Write(r)
    \/ GetTeamComponentsWithCadFiles
    \/ GetTeamComponentsWithImages
    \/ GetTeamInventorySummary
    \/ Deliver

SpecTeam == InitRunning /\ [][NextTeam]_vars

\* the endpoints that consist of the access guard and one statement
NextAccess ==
    \/ CreateTeamComponent
    \/ GetTeamComponents
    \/ GetTeamComponent
    \/ Deliver

SpecAccess == InitRunning /\ [][NextAccess]_vars

\* login and every endpoint that depends on get_current_active_user, the
\* requests served one after another
NextGated ==
    \/ Login
    \/ ReadUsersMe
    \/ CreateTeamComponent
    \/ GetTeamComponents
    \/ GetTeamComponent
    \/ UpdateTeamComponent_Check(1)
    \/ UpdateTeamComponent_Write(1)
    \/ DeleteTeamComponent_Check(1)
    \/ DeleteTeamComponent_Write(1)
    \/ AddImage_Check(1)
    \/ AddImage_Write(1)
    \/ Deliver

SpecGated == InitRunning /\ [][NextGated]_vars

\* the endpoints that look a single component up by its id, the requests
\* served one after another
NextComponent ==
    \/ CreateTeamComponent
    \/ GetTeamComponent
    \/ UpdateTeamComponent_Check(1)
    \/ UpdateTeamComponent_Write(1)
    \/ DeleteTeamComponent_Check(1)
    \/ DeleteTeamComponent_Write(1)
    \/ Deliver

SpecComponent == InitRunning /\ [][NextComponent]_vars

(* ------------------- properties of tokens and login ------------------- *)

SignedByServer(token) == token.sig = HS256(SECRET_KEY, token.claims)
Resolves(sub) == \E u \in users : u.username = sub
UserNamed(sub) == CHOOSE u \in users : u.username = sub
PasswordOf(u) == u.hashed_password.digest[2]
Answered(op) == last.op = op

\* C4: a protected request with a correctly signed, unexpired token of an
\* inactive user ends in the same 401 outcome (status, Bearer challenge,
\* message) as a request with a bad signature, an expired token or an
\* unknown subject.
C4_InactiveIsUnauthorized ==
    (/\ Answered("users_me")
     /\ SignedByServer(last.token)
     /\ timegm(now) <= last.token.claims.exp
     /\ Resolves(last.token.claims.sub)
     /\ ~UserNamed(last.token.claims.sub).is_active)
    => last.resp = credentials_exception

\* C5: a token issued at t0 with a (positive) ttl T for an existing active
\* user validates at every instant strictly before t0 + T and fails at every
\* instant at or after t0 + T, the instant t0 + T itself included.
C5_ExpiryBoundary ==
    Answered("users_me") =>
      \A i \in issued :
        (/\ i.token = last.token
         /\ Truthy(i.ttl)
         /\ Resolves(i.token.claims.sub)
         /\ UserNamed(i.token.claims.sub).is_active)
        => /\ Before(now, Plus(i.t0, i.ttl[1]))
                => last.resp.status = HTTP_200_OK
           /\ ~Before(now, Plus(i.t0, i.ttl[1]))
                => last.resp = credentials_exception

\* the four conditions under which get_current_user yields a user
Validates(token) ==
    /\ SignedByServer(token)
    /\ timegm(now) <= token.claims.exp
    /\ token.claims.sub # NoneVal
    /\ Resolves(token.claims.sub)

\* C6: get_current_user yields a user only for a token whose signature
\* verifies under the server secret, whose expiry has not passed, that carries
\* a subject, and whose subject resolves to a user row; each failing case
\* raises the one 401 "Could not validate credentials" with the Bearer
\* challenge, and the user yielded is the row named by the subject.
C6_ValidateToken ==
    Answered("users_me") =>
      LET current == get_current_user(last.token, now)
      IN  /\ ~Validates(last.token)
               => /\ current = Raise(credentials_exception)
                  /\ last.resp = credentials_exception
          /\ Validates(last.token)
               => /\ current = Yield({UserNamed(last.token.claims.sub)})
                  /\ last.resp # credentials_exception
          /\ last.resp.status = HTTP_200_OK
               => /\ Validates(last.token)
                  /\ last.resp.body.username = last.token.claims.sub

\* a correctly signed, unexpired token whose subject names no user is refused
C6_Witness ==
    /\ Answered("users_me")
    /\ SignedByServer(last.token)
    /\ timegm(now) <= last.token.claims.exp
    /\ last.token.claims.sub = GhostUser
    /\ last.resp = credentials_exception

WrongPassword(username, password) ==
    Resolves(username) /\ PasswordOf(UserNamed(username)) # password

\* C7: a login with an existing username and a wrong password and a login
\* with a username that does not exist get identical error responses: the
\* same status 401, detail and headers.
C7_LoginErrorsIdentical ==
    /\ (/\ Answered("login")
        /\ \/ WrongPassword(last.args.username, last.args.password)
           \/ ~Resolves(last.args.username))
       => last.resp = login_exception
    /\ proc = "running" =>
         \A known \in Usernames, password \in Passwords :
           WrongPassword(known, password)
           => login_user(known, password, now)
                = login_user(GhostUser, password, now)

C7_Witness ==
    /\ Answered("login")
    /\ WrongPassword(last.args.username, last.args.password)
    /\ last.resp.status = HTTP_401_UNAUTHORIZED

Authenticates(username, password) ==
    \E u \in users :
      u.username = username /\ verify_password(password, u.hashed_password)

\* C8: login issues a token only if the username resolves to a user row and
\* verify_password succeeds against that row's hash; when both hold a token
\* is issued and its subject is that username; no other path of login issues
\* a token.
C8_LoginIssuesToken ==
    /\ Answered("login") =>
         /\ last.resp.status = HTTP_200_OK
              <=> Authenticates(last.args.username, last.args.password)
         /\ last.resp.status = HTTP_200_OK
              => /\ last.resp.body.access_token.claims.sub = last.args.username
                 /\ SignedByServer(last.resp.body.access_token)
                 /\ \E i \in issued : /\ i.via = "login"
                                      /\ i.token = last.resp.body.access_token
         /\ last.resp.status # HTTP_200_OK => last.resp = login_exception
    /\ \A i \in issued :
         i.via = "login" => \E password \in Passwords :
                               Authenticates(i.token.claims.sub, password)

C8_Witness ==
    /\ Answered("login")
    /\ last.resp.status = HTTP_200_OK
    /\ last.args.username = "bob"

\* C10: with the signing secret absent or empty at boot, startup aborts; no
\* token is issued or validated and no request is served with a missing or
\* empty secret, and every issue and validation uses the one secret read at
\* boot.
C10_SecretAtBoot ==
    /\ proc # "boot" =>
         (proc = "aborted" <=> (environ = NoneVal \/ environ = ""))
    /\ proc # "running" => issued = {} /\ last.op = "none"
    /\ proc = "running" =>
         SECRET_KEY = environ /\ SECRET_KEY # NoneVal /\ SECRET_KEY # ""
    /\ \A i \in issued : i.key = SECRET_KEY /\ SignedByServer(i.token)

C10_Witness == proc = "aborted" /\ environ = "" /\ issued = {}

(* ------------------ properties of the team-scoped guard --------------- *)

Caller(token) == UserNamed(token.claims.sub)

\* the caller presented a valid token, is active and belongs to the team
Entitled(token, team_id) ==
    /\ Validates(token)
    /\ Caller(token).is_active
    /\ Caller(token).team_id = team_id

TeamReads == {"list", "get", "with_cad_files", "with_images", "summary"}
TeamWrites == {"create", "update", "delete", "add_image"}

\* the teams whose data the response being sent carries
TeamsReturned ==
    IF last.op \in {"list", "with_cad_files", "with_images"}
    THEN {c.team_id : c \in last.resp.body}
    ELSE IF last.op = "get" THEN {last.resp.body.team_id}
    ELSE IF last.resp.body.unique_components > 0
         THEN {last.resp.body.team_id}
         ELSE {}

\* C1: every endpoint that reads a team-scoped resource (the component list,
\* a single component, and the per-team with-cad-files, with-images and
\* inventory-summary views) returns data of team T only to a caller who
\* presented a valid token, is active and whose team_id is T.
C1_TeamReadsGuarded ==
    (last.op \in TeamReads /\ last.resp.status = HTTP_200_OK)
    => \A team_id \in TeamsReturned : Entitled(last.token, team_id)

\* a write of request slot r: the slot's handler resumes after its await
Resumes(r) == pending[r].op \in TeamWrites /\ pending'[r] = Idle

C2_Step ==
    \* a handler goes on to its write only past the ownership check
    /\ \A r \in Slots :
         (pending[r].op = "idle" /\ pending'[r].op \in TeamWrites)
         => /\ \E c \in team_components :
                    /\ c.id = pending'[r].args.component_id
                    /\ c.id = pending'[r].component.id
                    /\ c.team_id = pending'[r].component.team_id
            /\ Entitled(pending'[r].token, pending'[r].component.team_id)
            /\ pending'[r].op = "add_image"
                 => pending'[r].args.team_id = pending'[r].component.team_id
    \* the table changes only in a create or in a resumed write
    /\ team_components' # team_components
         => \/ /\ last'.op = "create"
               /\ pending' = pending
               /\ Entitled(last'.token, last'.args.team_id)
               /\ team_components \subseteq team_components'
               /\ \A c \in team_components' \ team_components :
                    c.team_id = last'.args.team_id
            \/ \E r \in Slots :
                 /\ Resumes(r)
                 /\ Caller(pending[r].token).team_id
                      = pending[r].component.team_id
                 /\ \A c \in team_components :
                      c.id # pending[r].args.component_id
                        => c \in team_components'
    \* a request that ends Forbidden has changed nothing
    /\ (last.op = "none" /\ last'.op \in TeamWrites
            /\ last'.resp.status = HTTP_403_FORBIDDEN)
         => team_components' = team_components

\* C2: a create, update, delete or add-image request changes the store only
\* if the caller's team_id equals the team_id of its target: the payload's
\* team_id on create, the team_id of the stored row the handler looked up on
\* update and delete, and both the path's team_id and that row's on
\* add-image; a request that ends Forbidden leaves team_components unchanged.
C2_WritesGuarded == [][C2_Step]_vars

\* bob is refused an update of a component of team "A" that an earlier,
\* permitted update has changed
C2_Witness ==
    /\ Answered("update")
    /\ last.resp = forbidden_exception
    /\ \E c \in team_components :
         /\ c.id = last.args.component_id
         /\ c.team_id = "A"
         /\ c.cad_file_url = NewCadUrl

TargetTeams == TeamIds \cup {"B"}

\* C3: check_team_access(user, team) succeeds iff user.team_id = team by
\* exact, case-sensitive equality: it raises 403 when user.team_id is None,
\* is another string, or differs only in case, whatever user.role is.
C3_CheckTeamAccess ==
    /\ \A u \in users, team_id \in TargetTeams :
         /\ check_team_access(u, team_id)
              = IF u.team_id = team_id THEN {} ELSE {forbidden_exception}
         /\ \A role \in Roles :
              check_team_access([u EXCEPT !.role = role], team_id)
                = check_team_access(u, team_id)
    /\ (/\ Answered("list")
        /\ Validates(last.token)
        /\ Caller(last.token).is_active)
       => /\ last.resp = forbidden_exception
               <=> Caller(last.token).team_id # last.args.team_id
          /\ last.resp.status = HTTP_200_OK
               <=> Caller(last.token).team_id = last.args.team_id

\* an admin whose team_id "a" differs from the team "A" only in case
C3_Witness ==
    /\ Answered("list")
    /\ Validates(last.token)
    /\ Caller(last.token).role = "admin"
    /\ Lower(last.args.team_id) = Lower(Caller(last.token).team_id)
    /\ last.resp = forbidden_exception

(* ---------------------- properties of registration -------------------- *)

UsernameTaken(username) == \E u \in users : u.username = username
EmailTaken(email) == \E u \in users : u.email = email

C9_State ==
    \* no two rows share a username or an email
    /\ \A u1, u2 \in users :
         (u1.username = u2.username \/ u1.email = u2.email) => u1 = u2
    \* a successful registration stored the hash and answers without it
    /\ (Answered("register") /\ last.resp.status = HTTP_200_OK)
       => /\ \E u \in users :
               /\ u.id = last.resp.body.id
               /\ u.username = last.args.username
               /\ u.email = last.args.email
               /\ \E salt \in Salts :
                    u.hashed_password = bcrypt_hash(last.args.password, salt)
               /\ verify_password(last.args.password, u.hashed_password)
          /\ DOMAIN last.resp.body = {"id", "message", "username", "team_id"}
          /\ last.resp.body.username = last.args.username
          /\ last.resp.body.team_id = last.args.team_id

C9_Step ==
    \* a request passes an existence check only if the name is free
    /\ \A r \in Slots :
         /\ (pending[r].op = "idle" /\ pending'[r].op = "register")
              => ~UsernameTaken(pending'[r].args.username)
         /\ (pending[r].op = "register" /\ pending[r].pc = "email"
                /\ pending'[r].op = "register" /\ pending'[r].pc = "insert")
              => ~EmailTaken(pending[r].args.email)
    \* a registration of a taken username or email adds no row
    /\ (last.op = "none" /\ last'.op = "register")
       => LET user == last'.args
              raced == \E r \in Slots : /\ pending[r].op = "register"
                                        /\ pending[r].pc = "insert"
                                        /\ pending'[r] = Idle
          IN  /\ (UsernameTaken(user.username) \/ EmailTaken(user.email))
                   => /\ users' = users
                      /\ last'.resp.status # HTTP_200_OK
                      /\ ~raced => last'.resp \in {username_exception,
                                                   email_exception}
              /\ ~(UsernameTaken(user.username) \/ EmailTaken(user.email))
                   => /\ last'.resp.status = HTTP_200_OK
                      /\ Cardinality(users') = Cardinality(users) + 1

\* C9: a registration whose username or email is found in the user store by
\* its existence check is rejected with a 400 and adds no row; after any
\* sequence of registrations, two requests for the same username or email
\* interleaved between check and insert included, no two rows share a
\* username or an email; a successful registration stores the hashed
\* password and its response carries neither the password nor the hash.
C9_Registration == []C9_State /\ [][C9_Step]_vars

\* the second of two interleaved registrations of one username is refused by
\* the store
C9_Witness ==
    /\ Answered("register")
    /\ last.resp = server_error
    /\ UsernameTaken(last.args.username)
    /\ ~UsernameTaken("erin")

(* ----------------------- properties of token expiry ------------------- *)

\* the expiry claim of a token created at t0 with lifetime `seconds`
ExpiryAfter(t0, seconds) == timegm(Plus(t0, seconds))

\* C11: create_access_token(data, ttl) sets the expiry to now + ttl for every
\* ttl the caller supplies, a zero ttl included; the 15-minute default is
\* used only when the caller omits the expiry; login always supplies 30
\* minutes, so a token issued by login expires 30 minutes after issuance.
C11_ExpiryIsNowPlusTtl ==
    \A i \in issued :
      /\ (i.via = "call" /\ i.ttl # <<>>)
           => i.token.claims.exp = ExpiryAfter(i.t0, i.ttl[1])
      /\ (i.via = "call" /\ i.ttl = <<>>)
           => i.token.claims.exp
                = ExpiryAfter(i.t0, DEFAULT_EXPIRE_MINUTES * SecondsPerMinute)
      /\ i.via = "login"
           => /\ i.ttl = <<ACCESS_TOKEN_EXPIRE_MINUTES * SecondsPerMinute>>
              /\ i.token.claims.exp
                   = ExpiryAfter(i.t0,
                        ACCESS_TOKEN_EXPIRE_MINUTES * SecondsPerMinute)

(* ------------------ properties of writes under interleaving ----------- *)

\* the rows a step modifies or removes
RowsTouched == team_components \ team_components'

C12_Step ==
    \A r \in Slots :
      (Resumes(r) /\ pending[r].op \in {"update", "delete"})
      => \A c \in RowsTouched :
           c.team_id = Caller(pending[r].token).team_id

\* C12: in every interleaving of concurrent requests, an update or delete
\* issued by a caller of team T modifies or removes only a row whose team_id
\* is T at the moment the write is applied, also when the row that passed the
\* ownership check has been deleted and its id reused by a component of
\* another team before the write.
C12_WriteTimeOwnership == [][C12_Step]_vars

(* --------------------- properties of inactive users ------------------- *)

GatedOps ==
    {"users_me", "create", "list", "get", "update", "delete", "add_image"}

\* the token's subject names a user whose is_active is false
InactiveCaller(token) ==
    Resolves(token.claims.sub) /\ ~UserNamed(token.claims.sub).is_active

C13_State ==
    \* login answers a deactivated user as it answers an active one
    /\ (/\ Answered("login")
        /\ Authenticates(last.args.username, last.args.password)
        /\ ~UserNamed(last.args.username).is_active)
       => /\ last.resp.status = HTTP_200_OK
          /\ last.resp.body.access_token.claims.sub = last.args.username
          /\ Validates(last.resp.body.access_token)
    \* a gated endpoint never answers a deactivated user with success
    /\ (last.op \in GatedOps /\ InactiveCaller(last.token))
       => /\ last.resp.status # HTTP_200_OK
          /\ Validates(last.token) => last.resp = inactive_exception
    \* ... and never takes its request as far as the write
    /\ \A r \in Slots :
         pending[r].op # "idle" => ~InactiveCaller(pending[r].token)

C13_Step ==
    (last.op = "none" /\ last'.op \in GatedOps /\ InactiveCaller(last'.token))
    => /\ team_components' = team_components
       /\ users' = users

\* C13: login does not consult is_active, so a deactivated user with correct
\* credentials still receives a token; but for a user whose is_active is
\* false no endpoint gated by get_current_active_user returns success or
\* changes the store, whatever token is presented.
C13_InactiveUsers == []C13_State /\ [][C13_Step]_vars

\* eve, deactivated, presents the token her login has returned
C13_Witness ==
    /\ Answered("users_me")
    /\ last.resp = inactive_exception
    /\ last.token.claims.sub = "eve"
    /\ \E i \in issued : i.via = "login" /\ i.token = last.token

(* ------------------- properties of a component's team ----------------- *)

C14_Step ==
    \* a row that exists before and after a step keeps its team_id
    /\ \A c \in team_components, d \in team_components' :
         c.id = d.id => c.team_id = d.team_id
    \* an update whose fields are all None is rejected and changes nothing
    /\ (last.op = "none" /\ last'.op = "update"
            /\ last'.args.component = NoFields)
       => /\ last'.resp.status # HTTP_200_OK
          /\ team_components' = team_components
          /\ (\E r \in Slots : Resumes(r))
               => last'.resp = no_fields_exception

\* C14: the team_id of a team component is fixed at creation: no update,
\* add-image or other operation changes the team_id of an existing
\* team_components row, and an update whose fields are all None is rejected
\* and leaves the row unchanged.
C14_TeamIdFixed == [][C14_Step]_vars

\* an update with every field None, past the ownership check, is answered
\* "No valid fields to update" while the row it names is in the table
C14_Witness ==
    /\ Answered("update")
    /\ last.args.component = NoFields
    /\ last.resp = no_fields_exception
    /\ \E c \in team_components :
         /\ c.id = last.args.component_id
         /\ c.team_id = Caller(last.token).team_id

(* ------------- properties of the lookup and the ownership check ------- *)

SingleOps == {"get", "update", "delete"}

\* the token is valid and names an active user
ActiveCaller(token) == Validates(token) /\ Caller(token).is_active

RowsWithId(component_id) == {c \in team_components : c.id = component_id}

\* the component exists and belongs to a team other than the caller's
Foreign(token, component_id) ==
    \E c \in RowsWithId(component_id) : c.team_id # Caller(token).team_id

C15_State ==
    \* a caller outside the owning team is answered differently for a foreign
    \* component and for one that does not exist
    proc = "running" =>
      \A token \in TeamTokens, i, j \in ComponentIds :
        (ActiveCaller(token) /\ Foreign(token, i) /\ RowsWithId(j) = {})
        => /\ get_team_component(token, i) = forbidden_exception
           /\ get_team_component(token, j) = not_found_exception
           /\ component_gate(token, i) # component_gate(token, j)

C15_Step ==
    \* the request is answered by the lookup or by the ownership check
    /\ (/\ last.op = "none"
        /\ last'.op \in SingleOps
        /\ pending' = pending
        /\ ActiveCaller(last'.token))
       => LET component_id == last'.args.component_id
          IN  /\ last'.resp = not_found_exception
                   <=> RowsWithId(component_id) = {}
              /\ last'.resp = forbidden_exception
                   <=> Foreign(last'.token, component_id)
              /\ last'.resp.status = HTTP_200_OK
                   <=> /\ RowsWithId(component_id) # {}
                       /\ ~Foreign(last'.token, component_id)
                       /\ last'.op = "get"
    \* an update or delete goes on only for an existing component of the
    \* caller's team
    /\ \A r \in Slots :
         (pending[r].op = "idle" /\ pending'[r].op \in SingleOps)
         => /\ ActiveCaller(pending'[r].token)
            /\ RowsWithId(pending'[r].args.component_id) # {}
            /\ ~Foreign(pending'[r].token, pending'[r].args.component_id)

\* C15: for get, update and delete of a single team component by an
\* authenticated active caller the existence lookup precedes the ownership
\* check: an id that does not exist yields 404 for every caller, 403 is
\* returned only when the component exists and belongs to another team, so a
\* caller outside the owning team can tell an existing foreign component from
\* a nonexistent one.
C15_LookupBeforeCheck == []C15_State /\ [][C15_Step]_vars

\* dave, who has no team, is answered 404 for a delete of component 2 while
\* component 1, of another team, exists
C15_Witness ==
    /\ Answered("delete")
    /\ ActiveCaller(last.token)
    /\ Caller(last.token).team_id = NoneVal
    /\ last.resp = not_found_exception
    /\ RowsWithId(last.args.component_id) = {}
    /\ \E i \in ComponentIds : Foreign(last.token, i)

====
